---- MODULE Spec2Model ----
(***************************************************************************)
(* Verification model of ibaqpy's peptide normalization.                   *)
(*                                                                         *)
(* The streaming command (src/bin/peptide_normalization_stream.py) is      *)
(* single-threaded and runs its stages one after the other.  Each stage    *)
(* is modelled as a state machine of its own, over its own variables:      *)
(*   - the protein support tracker of the ingestion loop (SpecSupport),    *)
(*   - the two passes of streaming quantile normalization (SpecQuantile),  *)
(*   - the low-frequency peptide filter and the export (SpecFrequency),    *)
(*   - the peptidoform rollup (SpecSelect, SpecSumMedian),                 *)
(*   - canonicalization of a peptide sequence (SpecCanonical),             *)
(*   - label resolution of the design (SpecLabel).                         *)
(* A specification leaves the variables of the other stages at their idle  *)
(* values.                                                                 *)
(***************************************************************************)
EXTENDS Integers, Sequences, FiniteSets, TLC

VARIABLES
    \* protein support tracker (ingestion loop)
    phase,             \* "ingest" while batches arrive, "frozen" after the loop
    unique_peptides,   \* dict canonical peptide -> protein (line 305)
    strong_proteins,   \* list of strong proteins, as a set (line 425)
    min_unique,        \* option --min_unique
    nbatches,          \* number of batches ingested so far
    seen,              \* history: peptide -> proteins seen in any row of any batch
    proposed           \* history: peptide -> proteins proposed by any batch's unique_dict

VARIABLES
    \* streaming quantile normalization (nmethod qnorm)
    qphase,            \* "pass1" while samples are folded, "pass2" once the reference is frozen
    sample_files,      \* per sample read so far: its NormIntensity column, a bag value -> rows
    quantile,          \* dict rank -> (average, count) (line 308)
    norm_intensity,    \* dict rank -> average, the frozen reference (line 617)
    normalized         \* per sample of pass 2: original value -> normalized value of its rows

VARIABLES
    \* low-frequency peptide filter and export (remove_low_frequency_peptides)
    fphase,            \* "count", "export", "done" or "failed"
    remove_low_frequency_peptides,  \* the option
    rolled,            \* per sample of the second loop: has its file rows, peptides of its norm_df
    peptides_count,    \* dict peptide -> count (line 613)
    strong_peptides,   \* [bound, value]: the name strong_peptides and the list it holds (line 700)
    output_rows        \* the output file: per sample written, the peptides of its rows

VARIABLES
    \* peptidoform rollup
    rstage,            \* "input", "selected", "summed" or "averaged"
    table,             \* the input table, rows in file order
    out                \* the table the last stage returned

VARIABLES
    \* canonicalization
    cstage,            \* "input", "once" or "twice"
    peptide_sequence,  \* the input string, a sequence of characters
    clean_peptide,     \* get_canonical_peptide(peptide_sequence)
    clean_again        \* get_canonical_peptide(clean_peptide)

VARIABLES
    \* label resolution
    lstage,            \* "design" or "resolved"
    labels,            \* the distinct values of the label column
    resolver,          \* the function that resolved the labels
    resolved           \* what it returned: [label, choice], or Exited

VARIABLES
    \* one run of the streaming command, as its files see it
    run_pc,            \* "start", "ingest", "filter", "normalize", "export", "done", "exited" or "failed"
    sdrf_labels,       \* the distinct values of the design's label column
    parquet,           \* the features come from a parquet file (else from a CSV)
    low_frequency,     \* option remove_low_frequency_peptides
    run_min_unique,    \* option min_unique
    label,             \* the label type extract_label_from_sdrf returned, "none" before
    scratch_created,   \* this run has made the directory ibaqpy_temp
    files,             \* ibaqpy_temp/{sample}.csv: sample -> its rows, for the files that exist
    chunks_read,       \* number of feature batches read
    rows_read,         \* number of feature rows read
    run_unique,        \* unique_peptides of this run
    run_strong,        \* strong_proteins of this run
    sample_index,      \* position of the running loop in sample_names
    run_count,         \* peptides_count of this run
    run_peptides,      \* [bound, value]: the name strong_peptides and its list
    output,            \* [exists, rows]: the output file
    appended,          \* history: the rows ingestion appended, per sample
    was_read           \* history: the samples whose file has been read

VARIABLES
    \* batch correction command
    bstage,            \* "input", "validated", "batched", "corrected", "saved", "ids" or "error"
    samples,           \* the sample ids handed in (df_wide.columns), in order
    is_valid,          \* what is_valid_sample_id returned
    printed,           \* the sample ids it printed as invalid
    batch_ids,         \* what get_batch_id_from_sample_names returned
    invoked,           \* apply_batch_correction has been called
    written            \* the output file has been written

VARIABLES
    \* per-run centering (nmethod msstats)
    cen_stage,         \* "pass1", "pass2" or "failed"
    cen_label,         \* the label type of the run
    cen_samples,       \* per sample of the first loop: group name -> its NormIntensity values
    group_intensities, \* dict group name -> values (line 307), after line 625 or 640 -> median
    median_baseline    \* line 622, for TMT and ITRAQ

VARIABLES
    \* parse_uniprot_accession, the two copies
    acc_stage,         \* "input" or "parsed"
    uniprot_id,        \* the ProteinName field, a sequence of characters
    stream_accession,  \* result of the copy in the stream script
    ibaq_accession     \* result of the copy in ibaq/peptide_normalization.py

VARIABLES
    \* ingestion into the scratch directory, as the disk and the support table see it
    ing_pc,            \* "ingest" or "pass1"
    ing_min_unique,    \* the option min_unique
    buffers,           \* ibaqpy_temp: sample -> the rows of its file, for the files that exist
    joined_rows,       \* history: sample -> the rows of this run's batches that joined to it
    ing_unique,        \* unique_peptides
    matched_unique,    \* history: unique_peptides of the same batches without their unmatched rows
    ing_strong,        \* strong_proteins
    ing_rows           \* rows read so far

supportVars == <<phase, unique_peptides, strong_proteins, min_unique, nbatches, seen, proposed>>
quantileVars == <<qphase, sample_files, quantile, norm_intensity, normalized>>
frequencyVars == <<fphase, remove_low_frequency_peptides, rolled, peptides_count,
                   strong_peptides, output_rows>>
rollupVars == <<rstage, table, out>>
canonicalVars == <<cstage, peptide_sequence, clean_peptide, clean_again>>
labelVars == <<lstage, labels, resolver, resolved>>

runVars == <<run_pc, sdrf_labels, parquet, low_frequency, run_min_unique, label,
             scratch_created, files, chunks_read, rows_read, run_unique, run_strong,
             sample_index, run_count, run_peptides, output, appended, was_read>>

batchVars == <<bstage, samples, is_valid, printed, batch_ids, invoked, written>>

centeringVars == <<cen_stage, cen_label, cen_samples, group_intensities, median_baseline>>

accessionVars == <<acc_stage, uniprot_id, stream_accession, ibaq_accession>>

ingestVars == <<ing_pc, ing_min_unique, buffers, joined_rows, ing_unique, matched_unique, ing_strong, ing_rows>>

vars == <<supportVars, quantileVars, frequencyVars, rollupVars, canonicalVars, labelVars, runVars, batchVars, centeringVars, accessionVars, ingestVars>>

\* The stages a specification does not run stay at these values.
SupportIdle ==
    /\ phase = "idle"
    /\ unique_peptides = <<>>
    /\ strong_proteins = {}
    /\ min_unique = 0
    /\ nbatches = 0
    /\ seen = <<>>
    /\ proposed = <<>>

QuantileIdle ==
    /\ qphase = "idle"
    /\ sample_files = <<>>
    /\ quantile = <<>>
    /\ norm_intensity = <<>>
    /\ normalized = <<>>

FrequencyIdle ==
    /\ fphase = "idle"
    /\ remove_low_frequency_peptides = FALSE
    /\ rolled = <<>>
    /\ peptides_count = <<>>
    /\ strong_peptides = [bound |-> FALSE, value |-> {}]
    /\ output_rows = <<>>

RollupIdle ==
    /\ rstage = "idle"
    /\ table = <<>>
    /\ out = <<>>

CanonicalIdle ==
    /\ cstage = "idle"
    /\ peptide_sequence = <<>>
    /\ clean_peptide = <<>>
    /\ clean_again = <<>>

LabelIdle ==
    /\ lstage = "idle"
    /\ labels = {}
    /\ resolver = "none"
    /\ resolved = <<>>

RunIdle ==
    /\ run_pc = "idle"
    /\ sdrf_labels = {}
    /\ parquet = FALSE
    /\ low_frequency = FALSE
    /\ run_min_unique = 0
    /\ label = "none"
    /\ scratch_created = FALSE
    /\ files = <<>>
    /\ chunks_read = 0
    /\ rows_read = 0
    /\ run_unique = <<>>
    /\ run_strong = {}
    /\ sample_index = 0
    /\ run_count = <<>>
    /\ run_peptides = [bound |-> FALSE, value |-> {}]
    /\ output = [exists |-> FALSE, rows |-> <<>>]
    /\ appended = <<>>
    /\ was_read = {}

BatchIdle ==
    /\ bstage = "idle"
    /\ samples = <<>>
    /\ is_valid = FALSE
    /\ printed = <<>>
    /\ batch_ids = <<>>
    /\ invoked = FALSE
    /\ written = FALSE

CenteringIdle ==
    /\ cen_stage = "idle"
    /\ cen_label = "none"
    /\ cen_samples = <<>>
    /\ group_intensities = <<>>
    /\ median_baseline = <<>>

AccessionIdle ==
    /\ acc_stage = "idle"
    /\ uniprot_id = <<>>
    /\ stream_accession = <<>>
    /\ ibaq_accession = <<>>

IngestIdle ==
    /\ ing_pc = "idle"
    /\ ing_min_unique = 0
    /\ buffers = <<>>
    /\ joined_rows = <<>>
    /\ ing_unique = <<>>
    /\ matched_unique = <<>>
    /\ ing_strong = {}
    /\ ing_rows = 0

notSupportVars == <<quantileVars, frequencyVars, rollupVars, canonicalVars, labelVars, runVars, batchVars, centeringVars, accessionVars, ingestVars>>
notQuantileVars == <<supportVars, frequencyVars, rollupVars, canonicalVars, labelVars, runVars, batchVars, centeringVars, accessionVars, ingestVars>>
notFrequencyVars == <<supportVars, quantileVars, rollupVars, canonicalVars, labelVars, runVars, batchVars, centeringVars, accessionVars, ingestVars>>
notRollupVars == <<supportVars, quantileVars, frequencyVars, canonicalVars, labelVars, runVars, batchVars, centeringVars, accessionVars, ingestVars>>
notCanonicalVars == <<supportVars, quantileVars, frequencyVars, rollupVars, labelVars, runVars, batchVars, centeringVars, accessionVars, ingestVars>>
notLabelVars == <<supportVars, quantileVars, frequencyVars, rollupVars, canonicalVars, runVars, batchVars, centeringVars, accessionVars, ingestVars>>
notRunVars == <<supportVars, quantileVars, frequencyVars, rollupVars, canonicalVars, labelVars, batchVars, centeringVars, accessionVars, ingestVars>>
notBatchVars == <<supportVars, quantileVars, frequencyVars, rollupVars, canonicalVars, labelVars, runVars, centeringVars, accessionVars, ingestVars>>
notCenteringVars == <<supportVars, quantileVars, frequencyVars, rollupVars, canonicalVars, labelVars, runVars, batchVars, accessionVars, ingestVars>>
notAccessionVars == <<supportVars, quantileVars, frequencyVars, rollupVars, canonicalVars, labelVars, runVars, batchVars, centeringVars, ingestVars>>
notIngestVars == <<supportVars, quantileVars, frequencyVars, rollupVars, canonicalVars, labelVars, runVars, batchVars, centeringVars, accessionVars>>

(***************************************************************************)
(* Generic helpers                                                         *)
(***************************************************************************)
Range(f) == {f[x] : x \in DOMAIN f}

RECURSIVE SetToSeq(_)
SetToSeq(S) ==
    IF S = {} THEN <<>>
    ELSE LET x == CHOOSE y \in S : TRUE IN <<x>> \o SetToSeq(S \ {x})

\* list.count(element)
RECURSIVE ListCount(_, _)
ListCount(list, element) ==
    IF list = <<>> THEN 0
    ELSE (IF Head(list) = element THEN 1 ELSE 0) + ListCount(Tail(list), element)

(***************************************************************************)
(* Protein support tracker                                                 *)
(***************************************************************************)
MaxBatches == 3
MaxMinUnique == 3

Peptides == {"p1", "p2", "p3"}
Proteins == {"A", "B"}

\* The rows of one batch's result_df, projected on (PeptideCanonical, ProteinName).
BatchRows == [pep : Peptides, prot : Proteins]

\* Lines 411-414: the peptides that map to one protein inside the batch.
unique_dict(batch) ==
    LET prots(p) == {r.prot : r \in {x \in batch : x.pep = p}}
        uniq == {p \in {r.pep : r \in batch} : Cardinality(prots(p)) = 1}
    IN [p \in uniq |-> CHOOSE q \in prots(p) : TRUE]

\* Lines 415-419: a key present with another protein is popped, any other
\* key is (re)assigned.
merge_unique(up, ud) ==
    LET popped == {i \in DOMAIN ud : i \in DOMAIN up /\ ud[i] # up[i]}
        keys == (DOMAIN up \cup DOMAIN ud) \ popped
    IN [i \in keys |-> IF i \in DOMAIN ud THEN ud[i] ELSE up[i]]

\* Line 421
proteins_list(up) == [k \in 1..Cardinality(DOMAIN up) |-> up[SetToSeq(DOMAIN up)[k]]]

\* Lines 422-424
count_dict(up) == [element \in Range(proteins_list(up)) |-> ListCount(proteins_list(up), element)]

StrongGreaterThan(up, mu) == {element \in DOMAIN count_dict(up) : count_dict(up)[element] > mu}

\* Lines 425-427
strong_list(up, mu) == {element \in DOMAIN count_dict(up) : count_dict(up)[element] >= mu}

SupportInit ==
    /\ phase = "ingest"
    /\ unique_peptides = <<>>
    /\ strong_proteins = {}
    /\ min_unique \in 1..MaxMinUnique
    /\ nbatches = 0
    /\ seen = [p \in Peptides |-> {}]
    /\ proposed = [p \in Peptides |-> {}]
    /\ QuantileIdle /\ FrequencyIdle /\ RollupIdle /\ CanonicalIdle /\ LabelIdle /\ RunIdle /\ BatchIdle /\ CenteringIdle /\ AccessionIdle /\ IngestIdle

\* One iteration of the loop over msstats_chunks, lines 309-419.
IngestBatch(batch) ==
    /\ phase = "ingest"
    /\ nbatches < MaxBatches
    /\ unique_peptides' = merge_unique(unique_peptides, unique_dict(batch))
    /\ nbatches' = nbatches + 1
    /\ seen' = [p \in Peptides |-> seen[p] \cup {r.prot : r \in {x \in batch : x.pep = p}}]
    /\ proposed' = [p \in Peptides |->
                      IF p \in DOMAIN unique_dict(batch)
                      THEN proposed[p] \cup {unique_dict(batch)[p]}
                      ELSE proposed[p]]
    /\ UNCHANGED <<phase, strong_proteins, min_unique>>
    /\ UNCHANGED notSupportVars

\* Lines 421-428: the loop is over, the strong proteins are computed once.
FreezeSupport ==
    /\ phase = "ingest"
    /\ strong_proteins' = strong_list(unique_peptides, min_unique)
    /\ phase' = "frozen"
    /\ UNCHANGED <<unique_peptides, min_unique, nbatches, seen, proposed>>
    /\ UNCHANGED notSupportVars

SupportNext ==
    \/ \E batch \in SUBSET BatchRows : IngestBatch(batch)
    \/ FreezeSupport

\* The peptides whose surviving entry points to protein q.
SupportOf(q) == {p \in DOMAIN unique_peptides : unique_peptides[p] = q}

\* C1: a peptide proposed with two different proteins by two batches has no
\* entry in the support table in any later state.
C1_EvictionPermanent ==
    \A p \in Peptides : Cardinality(proposed[p]) >= 2 => p \notin DOMAIN unique_peptides

\* C2: at the freeze point every peptide with an entry has been seen, over all
\* rows of all batches, with exactly one protein.
C2_EntryMeansOneProtein ==
    phase = "frozen" => \A p \in DOMAIN unique_peptides : Cardinality(seen[p]) = 1

\* C3: after ingestion a protein is strong iff at least min_unique peptides'
\* surviving entries point to it.
C3_StrongIffSupported ==
    phase = "frozen" =>
        \A q \in Proteins : q \in strong_proteins <=> Cardinality(SupportOf(q)) >= min_unique

C3_Witness ==
    /\ phase = "frozen"
    /\ min_unique = 2
    /\ DOMAIN unique_peptides = {"p1", "p2", "p3"}
    /\ unique_peptides["p1"] = "A"
    /\ unique_peptides["p2"] = "A"
    /\ unique_peptides["p3"] = "B"
    /\ strong_proteins = {"A"}

(***************************************************************************)
(* Streaming quantile normalization                                        *)
(*                                                                         *)
(* A sample's NormIntensity column is a bag: value -> number of rows with  *)
(* that value.  Ingestion keeps only rows with Intensity > 0 (line 333),   *)
(* so the column holds no null and dropna() keeps every row.  Averages     *)
(* are exact rationals <<numerator, denominator>> in lowest terms.         *)
(***************************************************************************)
MaxSamples == 2
MaxTotalRows == 5

Values == {6, 7, 8, 9, 10}

RECURSIVE GCD(_, _)
GCD(a, b) == IF b = 0 THEN a ELSE GCD(b, a % b)

Rat(n, d) == <<n \div GCD(n, d), d \div GCD(n, d)>>

RECURSIVE SumOver(_, _)
SumOver(S, f) ==
    IF S = {} THEN 0
    ELSE LET x == CHOOSE y \in S : TRUE IN f[x] + SumOver(S \ {x}, f)

BagSize(bag) == SumOver(DOMAIN bag, bag)

SetMax(S) == CHOOSE x \in S : \A y \in S : y <= x

Min(a, b) == IF a <= b THEN a ELSE b

\* Every column of at most MaxTotalRows rows over Values.
AllBags ==
    LET full == {f \in [Values -> 0..MaxTotalRows] : SumOver(Values, f) <= MaxTotalRows}
    IN {[v \in {x \in Values : f[x] > 0} |-> f[v]] : f \in full}

RowsRead == SumOver(DOMAIN sample_files, [j \in DOMAIN sample_files |-> BagSize(sample_files[j])])

Repeat(v, n) == [k \in 1..n |-> v]

\* sort_values(ascending=False).reset_index(drop=True), lines 474-475
sort_values_descending(bag) ==
    LET RECURSIVE desc(_)
        desc(D) == IF D = {} THEN <<>>
                   ELSE Repeat(SetMax(D), bag[SetMax(D)]) \o desc(D \ {SetMax(D)})
    IN desc(DOMAIN bag)

\* Lines 471-477: rank (from 0) -> value
to_dict(sorted) == [k \in 0..(Len(sorted) - 1) |-> sorted[k + 1]]

RecalculateDividingByCount(original, count, value) ==
    <<Rat(original[1] * count + value * original[2], original[2] * count), count + 1>>

RecalculateKeepingCount(original, count, value) ==
    <<Rat(original[1] * count + value * original[2], original[2] * (count + 1)), count>>

RecalculateFavouringNew(original, count, value) ==
    <<Rat(original[1] * count + 2 * value * original[2], original[2] * (count + 2)), count + 1>>

\* Lines 468-469
recalculate(original, count, value) ==
    <<Rat(original[1] * count + value * original[2], original[2] * (count + 1)), count + 1>>

FoldQuantileTruncating(q, dic) ==
    LET lenq == Cardinality(DOMAIN q)
        lend == Cardinality(DOMAIN dic)
        update == Min(lenq, lend)
        added == {k \in DOMAIN dic : k >= update}
    IN IF lenq = 0 THEN [k \in DOMAIN dic |-> <<Rat(dic[k], 1), 1>>]
       ELSE [k \in (0..(update - 1)) \cup added |->
               IF k \in added THEN <<Rat(dic[k], 1), 1>>
               ELSE recalculate(q[k][1], q[k][2], dic[k])]

\* Lines 478-490: one sample's dic folded into the quantile state.
fold_quantile(q, dic) ==
    LET lenq == Cardinality(DOMAIN q)
        lend == Cardinality(DOMAIN dic)
        update == Min(lenq, lend)
        updated == [k \in DOMAIN q |->
                      IF k \in 0..(update - 1) THEN recalculate(q[k][1], q[k][2], dic[k])
                      ELSE q[k]]
        added == {k \in DOMAIN dic : k >= update}
    IN IF lenq = 0 THEN [k \in DOMAIN dic |-> <<Rat(dic[k], 1), 1>>]
       ELSE IF lend <= lenq THEN updated
       ELSE [k \in DOMAIN updated \cup added |->
               IF k \in added THEN <<Rat(dic[k], 1), 1>> ELSE updated[k]]

RefDictKeepingDuplicates(bag, reference) ==
    LET ranked == to_dict(sort_values_descending(bag))
    IN [v \in DOMAIN bag |-> reference[SetMax({k \in DOMAIN ranked : ranked[k] = v})]]

\* Lines 553-561: the sample's distinct values, descending, each mapped to
\* the reference value at its rank.
ref_dict(bag, reference) ==
    LET drop_duplicates == [v \in DOMAIN bag |-> 1]
        ranked == to_dict(sort_values_descending(drop_duplicates))
    IN [v \in DOMAIN bag |-> reference[CHOOSE k \in DOMAIN ranked : ranked[k] = v]]

QuantileInit ==
    /\ qphase = "pass1"
    /\ sample_files = <<>>
    /\ quantile = <<>>
    /\ norm_intensity = <<>>
    /\ normalized = <<>>
    /\ SupportIdle /\ FrequencyIdle /\ RollupIdle /\ CanonicalIdle /\ LabelIdle /\ RunIdle /\ BatchIdle /\ CenteringIdle /\ AccessionIdle /\ IngestIdle

\* One iteration of the first loop over sample_names with nmethod qnorm,
\* lines 438-490: the sample's column is read and folded.
FoldSample(bag) ==
    /\ qphase = "pass1"
    /\ Len(sample_files) < MaxSamples
    /\ RowsRead + BagSize(bag) <= MaxTotalRows
    /\ sample_files' = Append(sample_files, bag)
    /\ quantile' = fold_quantile(quantile, to_dict(sort_values_descending(bag)))
    /\ UNCHANGED <<qphase, norm_intensity, normalized>>
    /\ UNCHANGED notQuantileVars

\* Lines 615-617: the reference is taken from the quantile state.
FreezeReference ==
    /\ qphase = "pass1"
    /\ norm_intensity' = [k \in DOMAIN quantile |-> quantile[k][1]]
    /\ qphase' = "pass2"
    /\ UNCHANGED <<sample_files, quantile, normalized>>
    /\ UNCHANGED notQuantileVars

\* One iteration of the second loop over sample_names, lines 643-650 and
\* 551-567: an empty sample is skipped, any other has every row mapped.
NormalizeSample ==
    /\ qphase = "pass2"
    /\ Len(normalized) < Len(sample_files)
    /\ LET bag == sample_files[Len(normalized) + 1]
       IN normalized' = Append(normalized, ref_dict(bag, norm_intensity))
    /\ UNCHANGED <<qphase, sample_files, quantile, norm_intensity>>
    /\ UNCHANGED notQuantileVars

QuantileNext ==
    \/ \E bag \in AllBags : FoldSample(bag)
    \/ FreezeReference
    \/ NormalizeSample

\* The reference as the run holds it: the quantile state's averages during
\* pass 1, norm_intensity from the freeze on.
Reference == IF qphase = "pass1" THEN [k \in DOMAIN quantile |-> quantile[k][1]] ELSE norm_intensity

\* The i-th largest value (i from 0) of a column with more than i rows.
IthLargest(bag, i) ==
    CHOOSE v \in DOMAIN bag :
        LET above == SumOver({w \in DOMAIN bag : w > v}, bag)
        IN above <= i /\ i < above + bag[v]

Contributors(i) == {j \in DOMAIN sample_files : BagSize(sample_files[j]) > i}

\* C4: the reference value at rank i is the arithmetic mean of the i-th
\* largest intensity over the samples that have more than i intensities.
C4_ReferenceIsRankMean ==
    \A i \in 0..(MaxTotalRows + 1) :
        Contributors(i) # {} =>
            /\ i \in DOMAIN Reference
            /\ Reference[i][1] * Cardinality(Contributors(i))
                 = Reference[i][2] * SumOver(Contributors(i),
                       [j \in Contributors(i) |-> IthLargest(sample_files[j], i)])

C4_Witness ==
    /\ qphase = "pass2"
    /\ sample_files = <<(6 :> 1) @@ (8 :> 1) @@ (10 :> 1), (7 :> 1) @@ (9 :> 1)>>
    /\ norm_intensity = (0 :> <<19, 2>>) @@ (1 :> <<15, 2>>) @@ (2 :> <<6, 1>>)

\* C5: in pass 2 every row whose value is the k-th distinct value of its
\* sample, descending, gets the reference value at rank k; rows with equal
\* values get equal results.
C5_RowsGetReferenceAtDistinctRank ==
    \A j \in DOMAIN normalized :
        \A v \in DOMAIN sample_files[j] :
            normalized[j][v] = norm_intensity[Cardinality({w \in DOMAIN sample_files[j] : w > v})]

C5_Witness ==
    /\ Len(normalized) = 2
    /\ norm_intensity = (0 :> <<19, 2>>) @@ (1 :> <<15, 2>>) @@ (2 :> <<6, 1>>)
    /\ normalized[1] = (10 :> <<19, 2>>) @@ (8 :> <<15, 2>>) @@ (6 :> <<6, 1>>)
    /\ normalized[2] = (9 :> <<19, 2>>) @@ (7 :> <<15, 2>>)

\* C21: folding a sample never lowers the number of ranks of the quantile
\* state; a sample with n values leaves every rank >= n as it was, average
\* and count; once the reference is frozen no later step changes it.
C21_RanksGrowAndReferenceFrozen ==
    [][/\ DOMAIN quantile \subseteq DOMAIN quantile'
       /\ Len(sample_files') > Len(sample_files) =>
              \A i \in DOMAIN quantile :
                  i >= BagSize(sample_files'[Len(sample_files')]) => quantile'[i] = quantile[i]
       /\ qphase = "pass2" => norm_intensity' = norm_intensity]_vars

C21_Witness ==
    /\ Len(normalized) = 2
    /\ BagSize(sample_files[2]) > 0
    /\ BagSize(sample_files[2]) < BagSize(sample_files[1])
    /\ DOMAIN norm_intensity = 0..(BagSize(sample_files[1]) - 1)

\* Folding in any order: three short columns instead of two long ones.
MaxOrderSamples == 3
MaxOrderRows == 2

OrderValues == {6, 9}

\* Every column of at most MaxOrderRows rows over OrderValues.
OrderBags == {bag \in AllBags : DOMAIN bag \subseteq OrderValues /\ BagSize(bag) <= MaxOrderRows}

\* One iteration of the first loop with nmethod qnorm (lines 438-490), as
\* FoldSample, for a short column.
FoldColumn(bag) ==
    /\ qphase = "pass1"
    /\ Len(sample_files) < MaxOrderSamples
    /\ sample_files' = Append(sample_files, bag)
    /\ quantile' = fold_quantile(quantile, to_dict(sort_values_descending(bag)))
    /\ UNCHANGED <<qphase, norm_intensity, normalized>>
    /\ UNCHANGED notQuantileVars

FoldOrderNext ==
    \/ \E bag \in OrderBags : FoldColumn(bag)
    \/ FreezeReference

\* The quantile state after the samples of a sequence are folded, one after
\* the other, into an empty state.
RECURSIVE FoldAll(_)
FoldAll(columns) ==
    IF columns = <<>> THEN <<>>
    ELSE fold_quantile(FoldAll(SubSeq(columns, 1, Len(columns) - 1)),
                       to_dict(sort_values_descending(columns[Len(columns)])))

\* The orders in which n samples can be folded
FoldOrders(n) == {f \in [1..n -> 1..n] : \A i, j \in 1..n : f[i] = f[j] => i = j}

\* C22: the quantile state, averages and counts, and so the frozen
\* reference, are the same for every order of folding the samples read.
C22_FoldOrderIndependent ==
    /\ \A order \in FoldOrders(Len(sample_files)) :
           FoldAll([k \in 1..Len(sample_files) |-> sample_files[order[k]]]) = quantile
    /\ qphase = "pass2" => norm_intensity = [k \in DOMAIN quantile |-> quantile[k][1]]

C22_Witness ==
    /\ qphase = "pass2"
    /\ sample_files = <<(6 :> 1), (9 :> 2), (6 :> 1) @@ (9 :> 1)>>
    /\ norm_intensity = (0 :> <<8, 1>>) @@ (1 :> <<15, 2>>)

\* a <= b for two rationals with positive denominators
RatLeq(a, b) == a[1] * b[2] <= b[1] * a[2]

\* C26: quantile normalization keeps the order of the values of a sample:
\* of two rows of one sample, the one with the larger value gets a
\* normalized value that is not smaller.
C26_NormalizationKeepsOrder ==
    \A j \in DOMAIN normalized :
        \A a, b \in DOMAIN sample_files[j] :
            a > b => RatLeq(normalized[j][b], normalized[j][a])

\* The largest number of values of a folded sample
LargestSample == SetMax({0} \cup {BagSize(sample_files[j]) : j \in DOMAIN sample_files})

\* C27: the keys of the quantile state are the ranks 0..L-1, L the largest
\* number of values of a folded sample, and the count at rank i is the
\* number of folded samples with more than i values.
C27_KeysAreRanksCountsAreContributors ==
    /\ DOMAIN quantile = 0..(LargestSample - 1)
    /\ \A i \in DOMAIN quantile :
           /\ quantile[i][2] = Cardinality(Contributors(i))
           /\ quantile[i][2] >= 1
           /\ i > 0 => quantile[i][2] <= quantile[i - 1][2]

C27_Witness ==
    /\ Len(sample_files) = 2
    /\ BagSize(sample_files[1]) = 0
    /\ BagSize(sample_files[2]) = 2
    /\ quantile[1][2] = 1

(***************************************************************************)
(* Low-frequency peptide filter and export                                 *)
(*                                                                         *)
(* A sample of the second loop is what the loop sees of it: whether its    *)
(* scratch file has rows, and the canonical peptides of the table that     *)
(* normalization() returned for it (none when the file has no rows).       *)
(***************************************************************************)
MaxFrequencySamples == 4

FrequencyPeptides == {"p1", "p2"}

RolledSamples ==
    {[has_rows |-> FALSE, peptides |-> {}]}
        \cup [has_rows : {TRUE}, peptides : SUBSET FrequencyPeptides]

\* Lines 653-656: the dict is rebuilt over the peptides of this sample.
count_sample_peptides(pc, sample_peptides) ==
    [peptide \in sample_peptides |-> (IF peptide \in DOMAIN pc THEN pc[peptide] ELSE 0) + 1]

\* Line 694
min_sample(sample_number) == IF sample_number > 1 THEN 1 ELSE 0

\* Lines 695-700.  v / sample_number >= 0.2 is 5 * v >= sample_number: the
\* quotient of two integers rounds to the double 0.2 exactly when it is 1/5.
filter_peptides_count(pc, sample_number) ==
    {k \in DOMAIN pc : 5 * pc[k] >= sample_number /\ pc[k] > min_sample(sample_number)}

FrequencyInit ==
    /\ fphase = "count"
    /\ remove_low_frequency_peptides \in BOOLEAN
    /\ rolled = <<>>
    /\ peptides_count = <<>>
    /\ strong_peptides = [bound |-> FALSE, value |-> {}]
    /\ output_rows = <<>>
    /\ SupportIdle /\ QuantileIdle /\ RollupIdle /\ CanonicalIdle /\ LabelIdle /\ RunIdle /\ BatchIdle /\ CenteringIdle /\ AccessionIdle /\ IngestIdle

\* One iteration of the second loop over sample_names, lines 643-659.
RollupSample(sample) ==
    /\ fphase = "count"
    /\ Len(rolled) < MaxFrequencySamples
    /\ rolled' = Append(rolled, sample)
    /\ peptides_count' =
         IF sample.has_rows /\ remove_low_frequency_peptides
         THEN count_sample_peptides(peptides_count, sample.peptides)
         ELSE peptides_count
    /\ UNCHANGED <<fphase, remove_low_frequency_peptides, strong_peptides, output_rows>>
    /\ UNCHANGED notFrequencyVars

\* Lines 692-701: the loop is over, the retained peptides are computed.
ComputeStrongPeptides ==
    /\ fphase = "count"
    /\ Len(rolled) >= 1
    /\ fphase' = "export"
    /\ strong_peptides' =
         IF remove_low_frequency_peptides
         THEN [bound |-> TRUE, value |-> filter_peptides_count(peptides_count, Len(rolled))]
         ELSE strong_peptides
    /\ UNCHANGED <<remove_low_frequency_peptides, rolled, peptides_count, output_rows>>
    /\ UNCHANGED notFrequencyVars

\* One iteration of the export loop, lines 704-721.  The name
\* strong_peptides is deleted by the first filtered sample (line 710); reading it
\* again raises NameError and the run stops.
ExportSample ==
    /\ fphase = "export"
    /\ Len(output_rows) < Len(rolled)
    /\ LET sample == rolled[Len(output_rows) + 1]
       IN IF remove_low_frequency_peptides
          THEN IF strong_peptides.bound
               THEN /\ output_rows' = Append(output_rows, sample.peptides \cap strong_peptides.value)
                    /\ strong_peptides' = [strong_peptides EXCEPT !.bound = FALSE]
                    /\ UNCHANGED fphase
               ELSE /\ fphase' = "failed"
                    /\ UNCHANGED <<output_rows, strong_peptides>>
          ELSE /\ output_rows' = Append(output_rows, sample.peptides)
               /\ UNCHANGED <<fphase, strong_peptides>>
    /\ UNCHANGED <<remove_low_frequency_peptides, rolled, peptides_count>>
    /\ UNCHANGED notFrequencyVars

\* The export loop is over.
FinishExport ==
    /\ fphase = "export"
    /\ Len(output_rows) = Len(rolled)
    /\ fphase' = "done"
    /\ UNCHANGED <<remove_low_frequency_peptides, rolled, peptides_count, strong_peptides,
                   output_rows>>
    /\ UNCHANGED notFrequencyVars

FrequencyNext ==
    \/ \E sample \in RolledSamples : RollupSample(sample)
    \/ ComputeStrongPeptides
    \/ ExportSample
    \/ FinishExport

\* The number of samples whose rolled-up table contains the peptide.
SamplesContaining(p) == Cardinality({j \in DOMAIN rolled : p \in rolled[j].peptides})

\* C6: with the filter enabled over N samples, a peptide is retained iff the
\* number n of samples containing it has n / N >= 0.20 and n > min_sample
\* (1 if N > 1, else 0).
C6_RetainedIffFrequent ==
    (remove_low_frequency_peptides /\ strong_peptides.bound) =>
        strong_peptides.value =
            {p \in FrequencyPeptides :
                /\ 5 * SamplesContaining(p) >= Len(rolled)
                /\ SamplesContaining(p) > (IF Len(rolled) > 1 THEN 1 ELSE 0)}

(***************************************************************************)
(* Peptidoform rollup                                                      *)
(*                                                                         *)
(* A table is a sequence of rows in file order; a row's index label is     *)
(* its position (read_csv gives a RangeIndex).  groupby returns its groups *)
(* in sorted key order; SetToSeq's fixed enumeration of the key set stands *)
(* for that order, which no formula below reads.  Intensities are          *)
(* integers, NaN a missing one; a median is an exact rational.             *)
(***************************************************************************)
MaxTableRows == 3

\* np.nan in the NormIntensity column
NaN == -1

\* np.nan as a median: 0/0
NaNRatio == <<0, 0>>

\* The rows of a sample's table before best-peptidoform selection.
FeatureRows ==
    [seq : {"PEK", "PE(ox)K"}, charge : {2, 3}, sample : {"S1"}, cond : {"c1"},
     biorep : {1}, prot : {"A"}, canon : {"PEK"}, norm : {NaN, 1, 2}]

\* The rows of a table handed to sum_peptidoform_intensities.
PeptidoformRows ==
    [seq : {"PEK"}, charge : {2}, sample : {"S1"}, cond : {"c1"},
     biorep : {1, 2}, prot : {"A", "B"}, canon : {"PEK"}, norm : {NaN, 1, 2}]

\* [PEPTIDE_SEQUENCE, PEPTIDE_CHARGE, SAMPLE_ID, CONDITION, BIOREPLICATE]
PeptidoformKey(r) == <<r.seq, r.charge, r.sample, r.cond, r.biorep>>

\* dataset[dataset[NORM_INTENSITY].notna()], as the index labels kept
notna_index(dataset) == {i \in DOMAIN dataset : dataset[i].norm # NaN}

IdxMin(dataset, group) ==
    CHOOSE i \in group :
        \A j \in group : dataset[i].norm < dataset[j].norm
                           \/ (dataset[i].norm = dataset[j].norm /\ i <= j)

\* Series.idxmax over one group: the label of the first row with the maximum
idxmax(dataset, group) ==
    CHOOSE i \in group :
        \A j \in group : dataset[j].norm < dataset[i].norm
                           \/ (dataset[j].norm = dataset[i].norm /\ i <= j)

\* dataset.loc[dataset.groupby(keys)[NORM_INTENSITY].idxmax()]
loc_idxmax(dataset, kept) ==
    LET keys == SetToSeq({PeptidoformKey(dataset[i]) : i \in kept})
        group(k) == {i \in kept : PeptidoformKey(dataset[i]) = k}
    IN [n \in 1..Len(keys) |-> dataset[idxmax(dataset, group(keys[n]))]]

\* The streaming command's copy, with higher_intensity=True as normalization()
\* calls it.
get_peptidoform_normalize_intensities_stream(dataset) ==
    loc_idxmax(dataset, notna_index(dataset))

\* The library's copy (dropna in place, observed=True), higher_intensity=True.
get_peptidoform_normalize_intensities(dataset) ==
    loc_idxmax(dataset, notna_index(dataset))

\* [PROTEIN_NAME, PEPTIDE_CANONICAL, SAMPLE_ID, BIOREPLICATE, CONDITION]
SumKey(r) == <<r.prot, r.canon, r.sample, r.biorep, r.cond>>

GroupFirst(dataset, key) ==
    dataset[CHOOSE i \in DOMAIN dataset :
                /\ SumKey(dataset[i]) = key
                /\ \A j \in 1..(i - 1) : SumKey(dataset[j]) # key].norm

\* groupby(...)[NORM_INTENSITY].transform("sum"): the sum over the rows of
\* the group, taken in row order
RECURSIVE group_sum(_, _)
group_sum(dataset, key) ==
    IF dataset = <<>> THEN 0
    ELSE (IF SumKey(Head(dataset)) = key THEN Head(dataset).norm ELSE 0)
            + group_sum(Tail(dataset), key)

\* DataFrame.drop_duplicates(): the first of equal rows is kept
RECURSIVE drop_duplicates(_)
drop_duplicates(dataset) ==
    IF dataset = <<>> THEN <<>>
    ELSE LET front == drop_duplicates(SubSeq(dataset, 1, Len(dataset) - 1))
             last == dataset[Len(dataset)]
         IN IF \E i \in DOMAIN front : front[i] = last THEN front ELSE Append(front, last)

sum_peptidoform_intensities(dataset) ==
    LET notna == SelectSeq(dataset, LAMBDA r : r.norm # NaN)
        columns == [i \in DOMAIN notna |->
                      [prot |-> notna[i].prot, canon |-> notna[i].canon,
                       sample |-> notna[i].sample, biorep |-> notna[i].biorep,
                       cond |-> notna[i].cond, norm |-> notna[i].norm]]
        summed == [i \in DOMAIN columns |->
                      [columns[i] EXCEPT !.norm = group_sum(columns, SumKey(columns[i]))]]
    IN drop_duplicates(summed)

\* [PEPTIDE_CANONICAL, SAMPLE_ID, CONDITION]
AverageKey(r) == <<r.canon, r.sample, r.cond>>

RECURSIVE sorted_ascending(_)
sorted_ascending(values) ==
    IF values = <<>> THEN <<>>
    ELSE LET rest == sorted_ascending(Tail(values))
             before == SelectSeq(rest, LAMBDA x : x <= Head(values))
             after == SelectSeq(rest, LAMBDA x : x > Head(values))
         IN before \o <<Head(values)>> \o after

\* Series.median(): the middle of the sorted values, or the mean of the two
\* middle ones
median(values) ==
    LET sorted == sorted_ascending(values)
        n == Len(sorted)
    IN IF n = 0 THEN NaNRatio
       ELSE IF n % 2 = 1 THEN Rat(sorted[(n + 1) \div 2], 1)
       ELSE Rat(sorted[n \div 2] + sorted[n \div 2 + 1], 2)

average_peptide_intensities(dataset) ==
    LET keys == SetToSeq({AverageKey(dataset[i]) : i \in DOMAIN dataset})
        norms(k) == LET rows == SelectSeq(dataset, LAMBDA r : AverageKey(r) = k)
                    IN [i \in DOMAIN rows |-> rows[i].norm]
        dataset_df == [n \in 1..Len(keys) |->
                          [canon |-> keys[n][1], sample |-> keys[n][2], cond |-> keys[n][3],
                           norm |-> median(norms(keys[n]))]]
        \* pd.merge(how="left"): per left row, its matches in right row order
        matches(l) == LET rows == SelectSeq(dataset, LAMBDA r : AverageKey(r) = AverageKey(l))
                      IN [i \in DOMAIN rows |->
                             [canon |-> l.canon, sample |-> l.sample, cond |-> l.cond,
                              norm |-> l.norm, prot |-> rows[i].prot]]
        RECURSIVE merged(_)
        merged(n) == IF n = 0 THEN <<>> ELSE merged(n - 1) \o matches(dataset_df[n])
    IN merged(Len(dataset_df))

\* Lines 608-609 of normalization()
final_rows(dataset) ==
    SelectSeq(drop_duplicates(dataset), LAMBDA r : r.norm # NaNRatio)

SelectInit ==
    /\ rstage = "input"
    /\ table = <<>>
    /\ out = <<>>
    /\ SupportIdle /\ QuantileIdle /\ FrequencyIdle /\ CanonicalIdle /\ LabelIdle /\ RunIdle /\ BatchIdle /\ CenteringIdle /\ AccessionIdle /\ IngestIdle

SumMedianInit ==
    /\ rstage = "selected"
    /\ table = <<>>
    /\ out = <<>>
    /\ SupportIdle /\ QuantileIdle /\ FrequencyIdle /\ CanonicalIdle /\ LabelIdle /\ RunIdle /\ BatchIdle /\ CenteringIdle /\ AccessionIdle /\ IngestIdle

\* The next row of the sample's file.
AddFeatureRow(r) ==
    /\ rstage = "input"
    /\ Len(table) < MaxTableRows
    /\ table' = Append(table, r)
    /\ UNCHANGED <<rstage, out>>
    /\ UNCHANGED notRollupVars

\* Line 574, or a call of the library's copy.
SelectBest(library) ==
    /\ rstage = "input"
    /\ out' = IF library THEN get_peptidoform_normalize_intensities(table)
              ELSE get_peptidoform_normalize_intensities_stream(table)
    /\ rstage' = "selected"
    /\ UNCHANGED table
    /\ UNCHANGED notRollupVars

\* The next row of a table handed to the summation.
AddPeptidoformRow(r) ==
    /\ rstage = "selected"
    /\ Len(table) < MaxTableRows
    /\ table' = Append(table, r)
    /\ out' = table'
    /\ UNCHANGED rstage
    /\ UNCHANGED notRollupVars

\* Line 592
SumPeptidoforms ==
    /\ rstage = "selected"
    /\ out' = sum_peptidoform_intensities(out)
    /\ rstage' = "summed"
    /\ UNCHANGED table
    /\ UNCHANGED notRollupVars

\* Lines 602-610
AveragePeptides ==
    /\ rstage = "summed"
    /\ out' = final_rows(average_peptide_intensities(out))
    /\ rstage' = "averaged"
    /\ UNCHANGED table
    /\ UNCHANGED notRollupVars

SelectNext ==
    \/ \E r \in FeatureRows : AddFeatureRow(r)
    \/ \E library \in BOOLEAN : SelectBest(library)

SumMedianNext ==
    \/ \E r \in PeptidoformRows : AddPeptidoformRow(r)
    \/ SumPeptidoforms
    \/ AveragePeptides

\* C7: best-peptidoform selection keeps at most one row per (sequence,
\* charge, sample, condition, replicate) key, exactly one for every key that
\* has a row with an intensity, and the kept row has the maximal intensity of
\* its group.
C7_OneBestRowPerKey ==
    rstage = "selected" =>
        /\ \A m, n \in DOMAIN out :
               PeptidoformKey(out[m]) = PeptidoformKey(out[n]) => m = n
        /\ \A i \in DOMAIN table :
               table[i].norm # NaN =>
                   \E n \in DOMAIN out :
                       /\ PeptidoformKey(out[n]) = PeptidoformKey(table[i])
                       /\ out[n].norm >= table[i].norm
        /\ \A n \in DOMAIN out :
               /\ out[n].norm # NaN
               /\ \E i \in DOMAIN table : table[i] = out[n]

C7_Witness ==
    /\ rstage = "selected"
    /\ Len(out) = 1
    /\ out[1].norm = 2
    /\ \E i, j, k \in DOMAIN table :
          /\ table[i].norm = 1 /\ table[j].norm = 2 /\ table[k].norm = NaN
          /\ PeptidoformKey(table[i]) = PeptidoformKey(table[j])
          /\ PeptidoformKey(table[k]) # PeptidoformKey(table[i])

Rows(dataset) == {dataset[i] : i \in DOMAIN dataset}

RowOrders(n) == {f \in [1..n -> 1..n] : \A i, j \in 1..n : f[i] = f[j] => i = j}

\* C8: the set of rows produced by summation, median and de-duplication is
\* the same for every permutation of the input rows.
C8_SumMedianOrderIndependent ==
    rstage = "averaged" =>
        \A f \in RowOrders(Len(table)) :
            Rows(final_rows(average_peptide_intensities(
                    sum_peptidoform_intensities([i \in DOMAIN table |-> table[f[i]]]))))
                = Rows(out)

C8_Witness ==
    /\ rstage = "averaged"
    /\ Len(table) = 3
    /\ table[1].prot = "A" /\ table[1].norm = 2
    /\ table[2].prot = "B" /\ table[2].norm = 1
    /\ table[3].prot = "A" /\ table[3].norm = 1
    /\ table[1].biorep = table[3].biorep
    /\ Len(out) = 2
    /\ out[1].norm = <<2, 1>>

(***************************************************************************)
(* Canonical peptide                                                       *)
(*                                                                         *)
(* A peptide sequence is a sequence of one-character strings.              *)
(***************************************************************************)
MaxLen == 4

Alphabet == {"A", "K", "(", ")", "[", "]", ".", "-"}

\* [\(\[]
Openers == {"(", "["}

\* [\)\]]
Closers == {")", "]"}

\* The end of the lazy match .*?[\)\]] that starts at the head of s: the
\* first closer after the head, 0 when there is none
match_end(s) ==
    IF \E j \in 2..Len(s) : s[j] \in Closers
    THEN CHOOSE j \in 2..Len(s) :
             s[j] \in Closers /\ \A k \in 2..(j - 1) : s[k] \notin Closers
    ELSE 0

RECURSIVE ReSubFirstMatch(_)
ReSubFirstMatch(s) ==
    IF s = <<>> THEN <<>>
    ELSE IF Head(s) \in Openers /\ match_end(s) # 0
    THEN SubSeq(s, match_end(s) + 1, Len(s))
    ELSE <<Head(s)>> \o ReSubFirstMatch(Tail(s))

\* re.sub("[\(\[].*?[\)\]]", "", s): the leftmost, non-overlapping matches
\* are removed in one left-to-right scan
RECURSIVE re_sub(_)
re_sub(s) ==
    IF s = <<>> THEN <<>>
    ELSE IF Head(s) \in Openers /\ match_end(s) # 0
    THEN re_sub(SubSeq(s, match_end(s) + 1, Len(s)))
    ELSE <<Head(s)>> \o re_sub(Tail(s))

\* str.replace(old, "") for a one-character old
replace(s, old) == SelectSeq(s, LAMBDA c : c # old)

get_canonical_peptide(s) == replace(replace(re_sub(s), "."), "-")

CanonicalInit ==
    /\ cstage = "input"
    /\ peptide_sequence = <<>>
    /\ clean_peptide = <<>>
    /\ clean_again = <<>>
    /\ SupportIdle /\ QuantileIdle /\ FrequencyIdle /\ RollupIdle /\ LabelIdle /\ RunIdle /\ BatchIdle /\ CenteringIdle /\ AccessionIdle /\ IngestIdle

\* The next character of the PeptideSequence cell.
AppendChar(c) ==
    /\ cstage = "input"
    /\ Len(peptide_sequence) < MaxLen
    /\ peptide_sequence' = Append(peptide_sequence, c)
    /\ UNCHANGED <<cstage, clean_peptide, clean_again>>
    /\ UNCHANGED notCanonicalVars

Canonicalize ==
    /\ cstage = "input"
    /\ clean_peptide' = get_canonical_peptide(peptide_sequence)
    /\ cstage' = "once"
    /\ UNCHANGED <<peptide_sequence, clean_again>>
    /\ UNCHANGED notCanonicalVars

\* The function applied to its own result.
CanonicalizeAgain ==
    /\ cstage = "once"
    /\ clean_again' = get_canonical_peptide(clean_peptide)
    /\ cstage' = "twice"
    /\ UNCHANGED <<peptide_sequence, clean_peptide>>
    /\ UNCHANGED notCanonicalVars

CanonicalNext ==
    \/ \E c \in Alphabet : AppendChar(c)
    \/ Canonicalize
    \/ CanonicalizeAgain

\* C9: canonicalization is idempotent: canonicalizing a canonical peptide
\* returns it unchanged.
C9_CanonicalIdempotent ==
    cstage = "twice" => clean_again = clean_peptide

C9_Witness ==
    /\ cstage = "twice"
    /\ peptide_sequence = <<"(", ")", "[", "K">>
    /\ clean_peptide = <<"[", "K">>
    /\ clean_again = <<"[", "K">>

(***************************************************************************)
(* Label resolution                                                        *)
(*                                                                         *)
(* A label is a sequence of one-character strings, so that the substring   *)
(* tests of the code are computed.  A resolver's result is the label type  *)
(* and the name of the channel map (the maps themselves are tables of      *)
(* ibaqpy_commons), or Exited when the resolver ends the process.          *)
(***************************************************************************)
MaxLabels == 3

LabelFree == <<"l", "a", "b", "e", "l", " ", "f", "r", "e", "e", " ", "s", "a", "m", "p", "l", "e">>
TMT126 == <<"T", "M", "T", "1", "2", "6">>
TMT127 == <<"T", "M", "T", "1", "2", "7">>
TMT131C == <<"T", "M", "T", "1", "3", "1", "C">>
TMT134N == <<"T", "M", "T", "1", "3", "4", "N">>
ITRAQ114 == <<"I", "T", "R", "A", "Q", "1", "1", "4">>
ITRAQ115 == <<"I", "T", "R", "A", "Q", "1", "1", "5">>
SILAC == <<"S", "I", "L", "A", "C">>

\* The values a design's comment[label] column takes here.
LabelValues == {LabelFree, TMT126, TMT127, TMT131C, TMT134N, ITRAQ114, ITRAQ115, SILAC}

\* needle in hay
Contains(hay, needle) ==
    \E i \in 1..(Len(hay) - Len(needle) + 1) :
        SubSeq(hay, i, i + Len(needle) - 1) = needle

\* ",".join(labels).  A set is joined in its iteration order; the needles
\* searched in the result hold no comma, so the order decides nothing.
RECURSIVE join(_)
join(seq) ==
    IF seq = <<>> THEN <<>>
    ELSE IF Len(seq) = 1 THEN seq[1]
    ELSE seq[1] \o <<",">> \o join(Tail(seq))

joined(ls) == join(SetToSeq(ls))

Exited == [label |-> "exit", choice |-> "None"]

TmtChoiceFromEleven(ls) ==
    IF \/ Cardinality(ls) >= 11
       \/ TMT134N \in ls
       \/ <<"T", "M", "T", "1", "3", "3", "C">> \in ls
       \/ <<"T", "M", "T", "1", "3", "3", "N">> \in ls
       \/ <<"T", "M", "T", "1", "3", "2", "C">> \in ls
       \/ <<"T", "M", "T", "1", "3", "2", "N">> \in ls
    THEN "TMT16plex"
    ELSE IF TMT131C \in ls THEN "TMT11plex"
    ELSE IF Cardinality(ls) > 6 THEN "TMT10plex"
    ELSE "TMT6plex"

\* The TMT branch, the same lines in the three resolvers
tmt_choice(ls) ==
    IF \/ Cardinality(ls) > 11
       \/ TMT134N \in ls
       \/ <<"T", "M", "T", "1", "3", "3", "C">> \in ls
       \/ <<"T", "M", "T", "1", "3", "3", "N">> \in ls
       \/ <<"T", "M", "T", "1", "3", "2", "C">> \in ls
       \/ <<"T", "M", "T", "1", "3", "2", "N">> \in ls
    THEN "TMT16plex"
    ELSE IF Cardinality(ls) = 11 \/ TMT131C \in ls THEN "TMT11plex"
    ELSE IF Cardinality(ls) > 6 THEN "TMT10plex"
    ELSE "TMT6plex"

\* The ITRAQ branch, the same lines in the three resolvers
itraq_choice(ls) == IF Cardinality(ls) > 4 THEN "ITRAQ8plex" ELSE "ITRAQ4plex"

\* What follows the label-free test in the three resolvers
labelled(ls) ==
    IF Contains(joined(ls), <<"T", "M", "T">>) \/ Contains(joined(ls), <<"t", "m", "t">>)
    THEN [label |-> "TMT", choice |-> tmt_choice(ls)]
    ELSE IF \/ Contains(joined(ls), <<"I", "T", "R", "A", "Q">>)
            \/ Contains(joined(ls), <<"i", "t", "r", "a", "q">>)
    THEN [label |-> "ITRAQ", choice |-> itraq_choice(ls)]
    ELSE Exited

ExtractLabelGuessingLFQ(ls) ==
    IF Cardinality(ls) = 1 \/ labelled(ls) = Exited THEN [label |-> "LFQ", choice |-> "None"]
    ELSE labelled(ls)

\* The streaming command's resolver: its (label, choice)
extract_label_from_sdrf(ls) ==
    IF Cardinality(ls) = 1 THEN [label |-> "LFQ", choice |-> "None"]
    ELSE labelled(ls)

\* The library's resolver
get_label(ls) ==
    IF Cardinality(ls) = 1 THEN [label |-> "LFQ", choice |-> "None"]
    ELSE labelled(ls)

FeatureGetLabelBySize(ls) ==
    IF Cardinality(ls) = 1 THEN [label |-> "LFQ", choice |-> "None"]
    ELSE labelled(ls)

\* Feature.get_label
Feature_get_label(ls) ==
    IF /\ Cardinality(ls) = 1
       /\ \/ Contains(joined(ls), <<"L", "A", "B", "E", "L", " ", "F", "R", "E", "E">>)
          \/ Contains(joined(ls), <<"l", "a", "b", "e", "l", " ", "f", "r", "e", "e">>)
    THEN [label |-> "LFQ", choice |-> "None"]
    ELSE labelled(ls)

Resolvers == {"extract_label_from_sdrf", "get_label", "Feature.get_label"}

LabelInit ==
    /\ lstage = "design"
    /\ labels = {}
    /\ resolver = "none"
    /\ resolved = <<>>
    /\ SupportIdle /\ QuantileIdle /\ FrequencyIdle /\ RollupIdle /\ CanonicalIdle /\ RunIdle /\ BatchIdle /\ CenteringIdle /\ AccessionIdle /\ IngestIdle

\* A row of the design with a label value not seen before.
AddLabel(l) ==
    /\ lstage = "design"
    /\ Cardinality(labels) < MaxLabels
    /\ l \notin labels
    /\ labels' = labels \cup {l}
    /\ UNCHANGED <<lstage, resolver, resolved>>
    /\ UNCHANGED notLabelVars

Resolve(r) ==
    /\ lstage = "design"
    /\ resolver' = r
    /\ resolved' = CASE r = "extract_label_from_sdrf" -> extract_label_from_sdrf(labels)
                     [] r = "get_label" -> get_label(labels)
                     [] r = "Feature.get_label" -> Feature_get_label(labels)
    /\ lstage' = "resolved"
    /\ UNCHANGED labels
    /\ UNCHANGED notLabelVars

LabelNext ==
    \/ \E l \in LabelValues : AddLabel(l)
    \/ \E r \in Resolvers : Resolve(r)

SaysLabelFree(l) ==
    \/ Contains(l, <<"L", "A", "B", "E", "L", " ", "F", "R", "E", "E">>)
    \/ Contains(l, <<"l", "a", "b", "e", "l", " ", "f", "r", "e", "e">>)

SaysTMT(l) == Contains(l, <<"T", "M", "T">>) \/ Contains(l, <<"t", "m", "t">>)

SaysITRAQ(l) ==
    \/ Contains(l, <<"I", "T", "R", "A", "Q">>)
    \/ Contains(l, <<"i", "t", "r", "a", "q">>)

MaxChannels == 12

TMT127N == <<"T", "M", "T", "1", "2", "7", "N">>
TMT127C == <<"T", "M", "T", "1", "2", "7", "C">>
TMT128 == <<"T", "M", "T", "1", "2", "8">>
TMT128N == <<"T", "M", "T", "1", "2", "8", "N">>
TMT128C == <<"T", "M", "T", "1", "2", "8", "C">>
TMT129 == <<"T", "M", "T", "1", "2", "9">>
TMT129N == <<"T", "M", "T", "1", "2", "9", "N">>
TMT129C == <<"T", "M", "T", "1", "2", "9", "C">>
TMT130 == <<"T", "M", "T", "1", "3", "0">>
TMT130N == <<"T", "M", "T", "1", "3", "0", "N">>
TMT130C == <<"T", "M", "T", "1", "3", "0", "C">>
TMT131 == <<"T", "M", "T", "1", "3", "1">>
ITRAQ113 == <<"I", "T", "R", "A", "Q", "1", "1", "3">>
ITRAQ116 == <<"I", "T", "R", "A", "Q", "1", "1", "6">>
ITRAQ117 == <<"I", "T", "R", "A", "Q", "1", "1", "7">>
ITRAQ118 == <<"I", "T", "R", "A", "Q", "1", "1", "8">>
TMT126Lower == <<"t", "m", "t", "1", "2", "6">>

TMTChannels ==
    <<TMT126, TMT127, TMT127N, TMT127C, TMT128, TMT128N, TMT128C,
      TMT129, TMT129N, TMT129C, TMT130, TMT130N, TMT130C, TMT131>>

ITRAQChannels == <<ITRAQ113, ITRAQ114, ITRAQ115, ITRAQ116, ITRAQ117, ITRAQ118>>

OtherLabels == {TMT131C, TMT134N, TMT126Lower, SILAC}

\* A row of the design with the next channel of a kit, or another label.
AddChannel(l) ==
    /\ lstage = "design"
    /\ Cardinality(labels) < MaxChannels
    /\ l \notin labels
    /\ \/ l \in OtherLabels
       \/ \E i \in DOMAIN TMTChannels :
             l = TMTChannels[i] /\ \A j \in 1..(i - 1) : TMTChannels[j] \in labels
       \/ \E i \in DOMAIN ITRAQChannels :
             l = ITRAQChannels[i] /\ \A j \in 1..(i - 1) : ITRAQChannels[j] \in labels
    /\ labels' = labels \cup {l}
    /\ UNCHANGED <<lstage, resolver, resolved>>
    /\ UNCHANGED notLabelVars

PlexNext ==
    \/ \E l \in Range(TMTChannels) \cup Range(ITRAQChannels) \cup OtherLabels : AddChannel(l)
    \/ \E r \in Resolvers : Resolve(r)

HighMarkers ==
    {<<"T", "M", "T", "1", "3", "2", "N">>, <<"T", "M", "T", "1", "3", "2", "C">>,
     <<"T", "M", "T", "1", "3", "3", "N">>, <<"T", "M", "T", "1", "3", "3", "C">>,
     <<"T", "M", "T", "1", "3", "4", "N">>}

PlexByRule(ls) ==
    IF Cardinality(ls) > 11 \/ ls \cap HighMarkers # {} THEN "TMT16plex"
    ELSE IF Cardinality(ls) = 11 \/ <<"T", "M", "T", "1", "3", "1", "C">> \in ls THEN "TMT11plex"
    ELSE IF Cardinality(ls) > 6 THEN "TMT10plex"
    ELSE "TMT6plex"

MaxRunRows == 2

\* sample_names: the design's distinct source names (line 163)
SampleNames == <<"S1", "S2">>

\* The label columns of the designs run here.
RunDesigns == {{LabelFree}, {TMT126, TMT127}, {ITRAQ114, ITRAQ115}, {SILAC, LabelFree}}

\* The rows the feature source holds.
RunRows ==
    [pep : {"p1", "p2"}, prot : {"A", "B"}, sample : {"S1", "S2"}, cond : {"c1"}]
        \cup [pep : {"p1"}, prot : {"B"}, sample : {"S1", "S2"}, cond : {"Empty"}]

\* Lines 331, 383 and 395: the places that drop the rows of condition "Empty"
drop_empty(chunk, from_parquet, label_type) ==
    IF from_parquet \/ label_type \in {"TMT", "ITRAQ"}
    THEN {r \in chunk : r.cond # "Empty"}
    ELSE chunk

\* Lines 403-410: to_csv in mode "a" when the file exists, "w" when not,
\* for every sample of sample_names
append_to_files(fs, rows) ==
    [s \in Range(SampleNames) |->
        (IF s \in DOMAIN fs THEN fs[s] ELSE <<>>) \o SetToSeq({r \in rows : r.sample = s})]

\* The rows normalization() returns for a sample's rows: one per distinct
\* (peptide, protein, sample, condition)
norm_df(rows) == SetToSeq(Range(rows))

RunInit ==
    /\ run_pc = "start"
    /\ sdrf_labels \in RunDesigns
    /\ parquet \in BOOLEAN
    /\ low_frequency \in BOOLEAN
    /\ run_min_unique \in {1, 2}
    /\ label = "none"
    /\ scratch_created = FALSE
    /\ files = <<>>
    /\ chunks_read = 0
    /\ rows_read = 0
    /\ run_unique = <<>>
    /\ run_strong = {}
    /\ sample_index = 0
    /\ run_count = <<>>
    /\ run_peptides = [bound |-> FALSE, value |-> {}]
    /\ output = [exists |-> FALSE, rows |-> <<>>]
    /\ appended = <<>>
    /\ was_read = {}
    /\ SupportIdle /\ QuantileIdle /\ FrequencyIdle /\ RollupIdle /\ CanonicalIdle /\ LabelIdle /\ BatchIdle /\ CenteringIdle /\ AccessionIdle /\ IngestIdle

\* Lines 279-308: the design is resolved, then ibaqpy_temp is made.
Startup ==
    /\ run_pc = "start"
    /\ LET r == extract_label_from_sdrf(sdrf_labels)
       IN IF r = Exited
          THEN /\ run_pc' = "exited"
               /\ UNCHANGED <<label, scratch_created>>
          ELSE /\ run_pc' = "ingest"
               /\ label' = r.label
               /\ scratch_created' = TRUE
    /\ UNCHANGED <<sdrf_labels, parquet, low_frequency, run_min_unique, files, chunks_read,
                   rows_read, run_unique, run_strong, sample_index, run_count, run_peptides,
                   output, appended, was_read>>
    /\ UNCHANGED notRunVars

ReadChunkWhileFiltering(chunk) ==
    /\ run_pc \in {"ingest", "filter"}
    /\ chunk # {}
    /\ rows_read + Cardinality(chunk) <= MaxRunRows
    /\ LET result_df == drop_empty(chunk, parquet, label)
       IN /\ files' = append_to_files(files, result_df)
          /\ appended' = append_to_files(appended, result_df)
          /\ run_unique' = merge_unique(run_unique, unique_dict(result_df))
    /\ chunks_read' = chunks_read + 1
    /\ rows_read' = rows_read + Cardinality(chunk)
    /\ UNCHANGED <<run_pc, sdrf_labels, parquet, low_frequency, run_min_unique, label,
                   scratch_created, run_strong, sample_index, run_count, run_peptides,
                   output, was_read>>
    /\ UNCHANGED notRunVars

\* Lines 309-419: one pass of the loop over the feature batches.
ReadChunk(chunk) ==
    /\ run_pc = "ingest"
    /\ chunk # {}
    /\ rows_read + Cardinality(chunk) <= MaxRunRows
    /\ LET result_df == drop_empty(chunk, parquet, label)
       IN /\ files' = append_to_files(files, result_df)
          /\ appended' = append_to_files(appended, result_df)
          /\ run_unique' = merge_unique(run_unique, unique_dict(result_df))
    /\ chunks_read' = chunks_read + 1
    /\ rows_read' = rows_read + Cardinality(chunk)
    /\ UNCHANGED <<run_pc, sdrf_labels, parquet, low_frequency, run_min_unique, label,
                   scratch_created, run_strong, sample_index, run_count, run_peptides,
                   output, was_read>>
    /\ UNCHANGED notRunVars

\* Lines 421-436: the batches are exhausted.
EndIngest ==
    /\ run_pc = "ingest"
    /\ run_strong' = strong_list(run_unique, run_min_unique)
    /\ run_pc' = "filter"
    /\ sample_index' = 1
    /\ UNCHANGED <<sdrf_labels, parquet, low_frequency, run_min_unique, label, scratch_created,
                   files, chunks_read, rows_read, run_unique, run_count, run_peptides,
                   output, appended, was_read>>
    /\ UNCHANGED notRunVars

\* Lines 438-490: one pass of the first loop over sample_names.  The file
\* is read, the rows of the strong proteins are kept and the file is written
\* anew with them.  read_csv raises when no batch has made the file.
RunFilterSample ==
    /\ run_pc = "filter"
    /\ sample_index <= Len(SampleNames)
    /\ LET sample == SampleNames[sample_index]
       IN IF sample \notin DOMAIN files
          THEN /\ run_pc' = "failed"
               /\ UNCHANGED <<files, was_read, sample_index>>
          ELSE /\ files' = [files EXCEPT
                               ![sample] = SelectSeq(@, LAMBDA r : r.prot \in run_strong)]
               /\ was_read' = was_read \cup {sample}
               /\ sample_index' = sample_index + 1
               /\ UNCHANGED run_pc
    /\ UNCHANGED <<sdrf_labels, parquet, low_frequency, run_min_unique, label, scratch_created,
                   chunks_read, rows_read, run_unique, run_strong, run_count, run_peptides,
                   output, appended>>
    /\ UNCHANGED notRunVars

\* Lines 491-642: between the first and the second loop.
EndFilter ==
    /\ run_pc = "filter"
    /\ sample_index > Len(SampleNames)
    /\ run_pc' = "normalize"
    /\ sample_index' = 1
    /\ UNCHANGED <<sdrf_labels, parquet, low_frequency, run_min_unique, label, scratch_created,
                   files, chunks_read, rows_read, run_unique, run_strong, run_count,
                   run_peptides, output, appended, was_read>>
    /\ UNCHANGED notRunVars

\* Lines 643-659: one pass of the second loop.  A file without rows is
\* skipped; otherwise the file is written anew with the normalized rows.
RunNormalizeSample ==
    /\ run_pc = "normalize"
    /\ sample_index <= Len(SampleNames)
    /\ LET sample == SampleNames[sample_index]
           dataset_df == files[sample]
       IN IF Len(dataset_df) = 0
          THEN UNCHANGED <<files, run_count>>
          ELSE /\ files' = [files EXCEPT ![sample] = norm_df(dataset_df)]
               /\ run_count' =
                      IF low_frequency
                      THEN count_sample_peptides(run_count,
                                                 {r.pep : r \in Range(norm_df(dataset_df))})
                      ELSE run_count
    /\ sample_index' = sample_index + 1
    /\ UNCHANGED <<run_pc, sdrf_labels, parquet, low_frequency, run_min_unique, label,
                   scratch_created, chunks_read, rows_read, run_unique, run_strong,
                   run_peptides, output, appended, was_read>>
    /\ UNCHANGED notRunVars

\* Lines 660-703: between the second loop and the export loop.
EndNormalize ==
    /\ run_pc = "normalize"
    /\ sample_index > Len(SampleNames)
    /\ run_peptides' =
           IF low_frequency
           THEN [bound |-> TRUE, value |-> filter_peptides_count(run_count, Len(SampleNames))]
           ELSE run_peptides
    /\ run_pc' = "export"
    /\ sample_index' = 1
    /\ UNCHANGED <<sdrf_labels, parquet, low_frequency, run_min_unique, label, scratch_created,
                   files, chunks_read, rows_read, run_unique, run_strong, run_count,
                   output, appended, was_read>>
    /\ UNCHANGED notRunVars

\* Lines 704-721: one pass of the export loop.  With the option on, the
\* name strong_peptides is deleted in the pass that first uses it, and the
\* next pass raises NameError at line 709.
RunExportSample ==
    /\ run_pc = "export"
    /\ sample_index <= Len(SampleNames)
    /\ LET sample == SampleNames[sample_index]
           dataset_df == IF low_frequency
                         THEN SelectSeq(files[sample], LAMBDA r : r.pep \in run_peptides.value)
                         ELSE files[sample]
       IN IF low_frequency /\ ~run_peptides.bound
          THEN /\ run_pc' = "failed"
               /\ UNCHANGED <<files, output, run_peptides, sample_index>>
          ELSE /\ run_peptides' = IF low_frequency THEN [run_peptides EXCEPT !.bound = FALSE]
                                  ELSE run_peptides
               /\ output' = [exists |-> TRUE, rows |-> output.rows \o dataset_df]
               /\ files' = [files EXCEPT ![sample] = dataset_df]
               /\ sample_index' = sample_index + 1
               /\ UNCHANGED run_pc
    /\ UNCHANGED <<sdrf_labels, parquet, low_frequency, run_min_unique, label, scratch_created,
                   chunks_read, rows_read, run_unique, run_strong, run_count, appended,
                   was_read>>
    /\ UNCHANGED notRunVars

\* Lines 722-760: after the export loop.
RunFinish ==
    /\ run_pc = "export"
    /\ sample_index > Len(SampleNames)
    /\ run_pc' = "done"
    /\ UNCHANGED <<sdrf_labels, parquet, low_frequency, run_min_unique, label, scratch_created,
                   files, chunks_read, rows_read, run_unique, run_strong, sample_index,
                   run_count, run_peptides, output, appended, was_read>>
    /\ UNCHANGED notRunVars

RunNext ==
    \/ Startup
    \/ \E chunk \in SUBSET RunRows : ReadChunk(chunk)
    \/ EndIngest
    \/ RunFilterSample
    \/ EndFilter
    \/ RunNormalizeSample
    \/ EndNormalize
    \/ RunExportSample
    \/ RunFinish

UpperCase(c) ==
    CASE c = "t" -> "T" [] c = "m" -> "M" [] c = "i" -> "I" [] c = "r" -> "R"
      [] c = "a" -> "A" [] c = "q" -> "Q" [] OTHER -> c

ContainsAnyCase(l, needle) == Contains([i \in DOMAIN l |-> UpperCase(l[i])], needle)

Unsupported(ls) ==
    /\ Cardinality(ls) > 1
    /\ \A l \in ls : /\ ~ContainsAnyCase(l, <<"T", "M", "T">>)
                     /\ ~ContainsAnyCase(l, <<"I", "T", "R", "A", "Q">>)

\* C12: when the design has more than one distinct label and none contains
\* TMT or ITRAQ (in any letter case), the run never gets past the resolution
\* of the design: no feature batch is read, neither the scratch directory
\* nor a per-sample file is made, nothing is written to the output, and no
\* label type is set.
C12_UnsupportedDesignStopsFirst ==
    Unsupported(sdrf_labels) =>
        /\ run_pc \in {"start", "exited"}
        /\ chunks_read = 0
        /\ ~scratch_created
        /\ files = <<>>
        /\ ~output.exists
        /\ label = "none"

C12_Witness ==
    /\ run_pc = "exited"
    /\ sdrf_labels = {SILAC, LabelFree}
    /\ ~scratch_created

\* C13: there is no partial output: a run that has aborted has left no row
\* of any sample in the output file.
C13_NoPartialOutput ==
    run_pc \in {"failed", "exited"} => output.rows = <<>>

\* C17: once the strong-protein filter has been applied to a sample, the
\* rows ingestion appended for that sample are all still in its file, those
\* of the proteins that are not strong included.
C17_WeakRowsStayInBuffer ==
    \A sample \in was_read :
        run_pc = "filter" => Range(appended[sample]) \subseteq Range(files[sample])

\* C18: no row whose condition is "Empty" is ever appended to a per-sample
\* file, whatever the input format and the label type.
C18_NoEmptyConditionRows ==
    \A sample \in DOMAIN appended :
        \A i \in DOMAIN appended[sample] : appended[sample][i].cond # "Empty"

\* C19: ingestion appends to no per-sample file once any per-sample file has
\* been read.
C19_WriteAllThenReadAll ==
    [][was_read # {} => appended' = appended]_vars

C19_Witness ==
    /\ run_pc = "normalize"
    /\ was_read = Range(SampleNames)
    /\ chunks_read = 2
    /\ \A sample \in Range(SampleNames) : Len(appended[sample]) = 1

\* C28: with the low-frequency filter on and two samples in the design, the
\* export loop has the retained peptides at hand in every pass and does not
\* abort once it has begun to write: it completes for all the samples.
C28_ExportCompletesWithFilter ==
    (low_frequency /\ Len(SampleNames) >= 2) => ~(run_pc = "failed" /\ output.exists)

(***************************************************************************)
(* Batch correction command                                                *)
(*                                                                         *)
(* A sample id is a sequence of one-character strings.  SAMPLE_ID_REGEX    *)
(* is a constant of ibaqpy_commons; it is taken as the pattern             *)
(* ^[A-Za-z0-9]+(-[A-Za-z0-9]+)*$ and run as the automaton of that         *)
(* pattern.  pivot_wider, apply_batch_correction and pivot_longer are      *)
(* other modules' functions: only their being called is recorded.          *)
(***************************************************************************)
MaxIdLen == 2

MaxSampleIds == 2

IdAlphabet == {"a", "-", "_"}

\* [A-Za-z0-9], as far as its characters occur here
AlphaNumeric == {"a", "b", "c", "S", "T", "U", "D", "Y", "0", "1", "2", "3"}

ABC_123 == <<"a", "b", "c", "_", "1", "2", "3">>

STUDY1_S01 == <<"S", "T", "U", "D", "Y", "1", "-", "S", "0", "1">>

SampleIds ==
    UNION {[1..n -> IdAlphabet] : n \in 0..MaxIdLen} \cup {ABC_123, STUDY1_S01}

\* One step of the automaton of ^[A-Za-z0-9]+(-[A-Za-z0-9]+)*$
SAMPLE_ID_REGEX(state, c) ==
    CASE state = "start" /\ c \in AlphaNumeric -> "part"
      [] state = "part" /\ c \in AlphaNumeric -> "part"
      [] state = "part" /\ c = "-" -> "hyphen"
      [] state = "hyphen" /\ c \in AlphaNumeric -> "part"
      [] OTHER -> "dead"

RECURSIVE run_pattern(_, _)
run_pattern(state, s) ==
    IF s = <<>> THEN state ELSE run_pattern(SAMPLE_ID_REGEX(state, Head(s)), Tail(s))

\* sample_pattern.fullmatch(sample): the whole string is consumed in an
\* accepting state
fullmatch(sample) == run_pattern("start", sample) = "part"

InvalidSamplesFirstOnly(ss) ==
    LET bad == SelectSeq(ss, LAMBDA sample : ~fullmatch(sample))
    IN IF bad = <<>> THEN <<>> ELSE <<bad[1]>>

\* Line 42
invalid_samples(ss) == SelectSeq(ss, LAMBDA sample : ~fullmatch(sample))

IsValidIfAnyMatches(ss) ==
    [result |-> ss = <<>> \/ \E i \in DOMAIN ss : fullmatch(ss[i]),
     printed |-> invalid_samples(ss)]

\* is_valid_sample_id on a list or Series: its result and what it prints
is_valid_sample_id(ss) ==
    [result |-> invalid_samples(ss) = <<>>, printed |-> invalid_samples(ss)]

\* sample.split("-")[0]
RECURSIVE first_part(_)
first_part(sample) ==
    IF sample = <<>> \/ Head(sample) = "-" THEN <<>>
    ELSE <<Head(sample)>> \o first_part(Tail(sample))

\* re.match(r"^[A-Za-z0-9]+$", batch_id)
alphanumeric_only(batch_id) ==
    batch_id # <<>> /\ \A i \in DOMAIN batch_id : batch_id[i] \in AlphaNumeric

FactorizeSorted(values) ==
    LET uniques == SetToSeq(Range(values))
    IN [i \in DOMAIN values |-> (CHOOSE k \in DOMAIN uniques : uniques[k] = values[i]) - 1]

\* pd.factorize(values)[0]: the codes, the uniques numbered from 0 in the
\* order in which they first appear
factorize(values) ==
    LET first(i) == \A j \in 1..(i - 1) : values[j] # values[i]
        code(i) == Cardinality({j \in 1..i : first(j)}) - 1
    IN [i \in DOMAIN values |->
           code(CHOOSE j \in 1..i : values[j] = values[i] /\ first(j))]

\* get_batch_id_from_sample_names: the codes, or ValueError
get_batch_id_from_sample_names(ss) ==
    IF \E i \in DOMAIN ss : first_part(ss[i]) = <<>> \/ ~alphanumeric_only(first_part(ss[i]))
    THEN [raised |-> TRUE, ids |-> <<>>]
    ELSE [raised |-> FALSE, ids |-> factorize([i \in DOMAIN ss |-> first_part(ss[i])])]

BatchInit ==
    /\ bstage = "input"
    /\ samples = <<>>
    /\ is_valid = FALSE
    /\ printed = <<>>
    /\ batch_ids = <<>>
    /\ invoked = FALSE
    /\ written = FALSE
    /\ SupportIdle /\ QuantileIdle /\ FrequencyIdle /\ RollupIdle /\ CanonicalIdle /\ LabelIdle /\ RunIdle /\ CenteringIdle /\ AccessionIdle /\ IngestIdle

\* The next sample id of the list (the next column of df_wide).
AddSampleId(id) ==
    /\ bstage = "input"
    /\ Len(samples) < MaxSampleIds
    /\ samples' = Append(samples, id)
    /\ UNCHANGED <<bstage, is_valid, printed, batch_ids, invoked, written>>
    /\ UNCHANGED notBatchVars

\* Lines 117-119 of run_batch_correction
ValidateSampleIds ==
    /\ bstage = "input"
    /\ is_valid' = is_valid_sample_id(samples).result
    /\ printed' = is_valid_sample_id(samples).printed
    /\ bstage' = IF is_valid_sample_id(samples).result THEN "validated" ELSE "error"
    /\ UNCHANGED <<samples, batch_ids, invoked, written>>
    /\ UNCHANGED notBatchVars

\* Line 122
DeriveBatchIds ==
    /\ bstage = "validated"
    /\ IF get_batch_id_from_sample_names(samples).raised
       THEN bstage' = "error" /\ UNCHANGED batch_ids
       ELSE bstage' = "batched" /\ batch_ids' = get_batch_id_from_sample_names(samples).ids
    /\ UNCHANGED <<samples, is_valid, printed, invoked, written>>
    /\ UNCHANGED notBatchVars

\* Lines 125-140
ApplyBatchCorrection ==
    /\ bstage = "batched"
    /\ invoked' = TRUE
    /\ bstage' = "corrected"
    /\ UNCHANGED <<samples, is_valid, printed, batch_ids, written>>
    /\ UNCHANGED notBatchVars

\* Lines 143-147, with or without an output name
SaveCorrected(with_output) ==
    /\ bstage = "corrected"
    /\ written' = with_output
    /\ bstage' = "saved"
    /\ UNCHANGED <<samples, is_valid, printed, batch_ids, invoked>>
    /\ UNCHANGED notBatchVars

\* get_batch_id_from_sample_names called on a list of its own.
CallGetBatchIds ==
    /\ bstage = "input"
    /\ IF get_batch_id_from_sample_names(samples).raised
       THEN bstage' = "error" /\ UNCHANGED batch_ids
       ELSE bstage' = "ids" /\ batch_ids' = get_batch_id_from_sample_names(samples).ids
    /\ UNCHANGED <<samples, is_valid, printed, invoked, written>>
    /\ UNCHANGED notBatchVars

BatchNext ==
    \/ \E id \in SampleIds : AddSampleId(id)
    \/ ValidateSampleIds
    \/ DeriveBatchIds
    \/ ApplyBatchCorrection
    \/ \E with_output \in BOOLEAN : SaveCorrected(with_output)
    \/ CallGetBatchIds

\* The pattern in words: letters and digits in one or more non-empty parts
\* joined by single hyphens.
WellFormed(id) ==
    /\ id # <<>>
    /\ \A i \in DOMAIN id : id[i] \in AlphaNumeric \cup {"-"}
    /\ id[1] # "-" /\ id[Len(id)] # "-"
    /\ \A i \in 1..(Len(id) - 1) : ~(id[i] = "-" /\ id[i + 1] = "-")

Validated == bstage \in {"validated", "batched", "corrected", "saved"} \/ printed # <<>>

\* C14: is_valid_sample_id returns True exactly when every sample id matches
\* the pattern, and it prints every id that does not, in order; "abc_123"
\* does not match and "STUDY1-S01" does.
C14_ValidIffAllMatch ==
    /\ ~fullmatch(ABC_123)
    /\ fullmatch(STUDY1_S01)
    /\ Validated =>
          /\ is_valid <=> \A i \in DOMAIN samples : WellFormed(samples[i])
          /\ printed = SelectSeq(samples, LAMBDA id : ~WellFormed(id))

C14_Witness ==
    /\ bstage = "error"
    /\ samples = <<ABC_123, <<"a", "-">>>>
    /\ ~is_valid
    /\ printed = samples

TokenBeforeHyphen(id) ==
    IF \E k \in DOMAIN id : id[k] = "-"
    THEN SubSeq(id, 1, (CHOOSE k \in DOMAIN id :
                            id[k] = "-" /\ \A j \in 1..(k - 1) : id[j] # "-") - 1)
    ELSE id

\* C15: get_batch_id_from_sample_names returns one integer per sample, in
\* input order; two samples get the same integer exactly when their tokens
\* before the first hyphen are equal; the integers start at 0 and each new
\* token gets the next integer.
C15_BatchIdsDenseByFirstAppearance ==
    bstage \in {"ids", "batched", "corrected", "saved"} =>
        /\ DOMAIN batch_ids = DOMAIN samples
        /\ \A i, j \in DOMAIN samples :
               batch_ids[i] = batch_ids[j]
                   <=> TokenBeforeHyphen(samples[i]) = TokenBeforeHyphen(samples[j])
        /\ \A i \in DOMAIN samples :
               \/ \E j \in 1..(i - 1) : batch_ids[j] = batch_ids[i]
               \/ batch_ids[i] = Cardinality({batch_ids[j] : j \in 1..(i - 1)})

C15_Witness ==
    /\ bstage = "ids"
    /\ samples = <<STUDY1_S01, <<"a", "-">>>>
    /\ batch_ids = <<0, 1>>

\* C16: in run_batch_correction, when a sample id fails the validation, an
\* error is raised, apply_batch_correction is never called and no output
\* file is written.
C16_InvalidIdStopsCorrection ==
    (bstage # "ids" /\ \E i \in DOMAIN samples : ~WellFormed(samples[i])) =>
        /\ bstage \in {"input", "error"}
        /\ ~invoked
        /\ ~written

C16_Witness ==
    /\ bstage = "error"
    /\ samples = <<<<"a">>, <<"a", "_">>>>
    /\ printed = <<<<"a", "_">>>>
    /\ ~invoked

(***************************************************************************)
(* Per-run centering (nmethod msstats)                                     *)
(*                                                                         *)
(* The first loop over sample_names collects, per group (Run, Channel) or  *)
(* (Run, Fraction), the NormIntensity values of the sample's rows; the     *)
(* dict is turned into medians before the second loop.                     *)
(***************************************************************************)
MaxCenteringSamples == 2

\* The group names, in the order groupby yields them
GroupNames == <<<<"r1", 1>>, <<"r2", 1>>>>

\* group[NORM_INTENSITY].tolist() of one group of one sample
GroupValues == UNION {[1..n -> {1, 2}] : n \in 1..2}

\* The groups of one sample's file
SampleGroups == UNION {[names -> GroupValues] : names \in SUBSET Range(GroupNames)}

\* Lines 458-465: the loop over the groups of one sample.  For a name that
\* is a key already, line 464 looks up group_intensities[NORM_INTENSITY],
\* which is no key of the dict: KeyError, after the groups before it have
\* been stored.
RECURSIVE fold_groups(_, _, _)
fold_groups(gi, g, n) ==
    IF n > Len(GroupNames) THEN [raised |-> FALSE, dict |-> gi]
    ELSE LET name == GroupNames[n]
         IN IF name \notin DOMAIN g THEN fold_groups(gi, g, n + 1)
            ELSE IF name \notin DOMAIN gi
            THEN fold_groups([k \in DOMAIN gi \cup {name} |->
                                 IF k = name THEN g[name] ELSE gi[k]], g, n + 1)
            ELSE [raised |-> TRUE, dict |-> gi]

\* sum(group_intensities.values(), []) as the set line 623 makes of it
all_values(gi) == UNION {Range(gi[k]) : k \in DOMAIN gi}

\* np.median of a set of values
median_of_set(S) == median(SetToSeq(S))

CenteringInit ==
    /\ cen_stage = "pass1"
    /\ cen_label \in {"LFQ", "TMT", "ITRAQ"}
    /\ cen_samples = <<>>
    /\ group_intensities = <<>>
    /\ median_baseline = <<>>
    /\ SupportIdle /\ QuantileIdle /\ FrequencyIdle /\ RollupIdle /\ CanonicalIdle /\ LabelIdle /\ RunIdle /\ BatchIdle /\ AccessionIdle /\ IngestIdle

\* Lines 438-465: one pass of the first loop, for a sample with these groups.
CollectGroups(g) ==
    /\ cen_stage = "pass1"
    /\ Len(cen_samples) < MaxCenteringSamples
    /\ cen_samples' = Append(cen_samples, g)
    /\ group_intensities' = fold_groups(group_intensities, g, 1).dict
    /\ cen_stage' = IF fold_groups(group_intensities, g, 1).raised THEN "failed" ELSE "pass1"
    /\ UNCHANGED <<cen_label, median_baseline>>
    /\ UNCHANGED notCenteringVars

\* Lines 617-642: the dict of values becomes the dict of medians.
ComputeMedians ==
    /\ cen_stage = "pass1"
    /\ median_baseline' = IF cen_label \in {"TMT", "ITRAQ"}
                          THEN median_of_set(all_values(group_intensities))
                          ELSE median_baseline
    /\ group_intensities' = [key \in DOMAIN group_intensities |->
                                median(group_intensities[key])]
    /\ cen_stage' = "pass2"
    /\ UNCHANGED <<cen_label, cen_samples>>
    /\ UNCHANGED notCenteringVars

CenteringNext ==
    \/ \E g \in SampleGroups : CollectGroups(g)
    \/ ComputeMedians

\* The values of a group in all the samples read, sample after sample
RECURSIVE ValuesOfGroup(_, _)
ValuesOfGroup(name, n) ==
    IF n = 0 THEN <<>>
    ELSE ValuesOfGroup(name, n - 1)
            \o (IF name \in DOMAIN cen_samples[n] THEN cen_samples[n][name] ELSE <<>>)

\* C20: after the first pass the group map holds, for every group, the
\* values of that group from every sample read, also for a group that occurs
\* in two samples, and the median of the second pass is the median of all
\* of them.
C20_GroupMapCoversAllSamples ==
    \A name \in Range(GroupNames) :
        ValuesOfGroup(name, Len(cen_samples)) # <<>> =>
            /\ name \in DOMAIN group_intensities
            /\ cen_stage # "pass2" =>
                   group_intensities[name] = ValuesOfGroup(name, Len(cen_samples))
            /\ cen_stage = "pass2" =>
                   group_intensities[name] = median(ValuesOfGroup(name, Len(cen_samples)))

(***************************************************************************)
(* parse_uniprot_accession                                                 *)
(*                                                                         *)
(* The function exists twice, in the stream script and in                  *)
(* ibaq/peptide_normalization.py.  A ProteinName field is a sequence of    *)
(* characters.                                                             *)
(***************************************************************************)
MaxAccessionLen == 4

AccessionAlphabet == {"a", "b", "|", ";"}

\* str.split(sep): the pieces between the separators, empty pieces kept
RECURSIVE split(_, _)
split(s, sep) ==
    IF \A i \in DOMAIN s : s[i] # sep THEN <<s>>
    ELSE LET first == CHOOSE i \in DOMAIN s :
                          s[i] = sep /\ \A j \in 1..(i - 1) : s[j] # sep
         IN <<SubSeq(s, 1, first - 1)>> \o split(SubSeq(s, first + 1, Len(s)), sep)

\* str.count(c)
count(s, c) == Cardinality({i \in DOMAIN s : s[i] = c})

\* ";".join(result_uniprot_list)
RECURSIVE join_semicolon(_)
join_semicolon(list) ==
    IF Len(list) = 0 THEN <<>>
    ELSE IF Len(list) = 1 THEN list[1]
    ELSE list[1] \o <<";">> \o join_semicolon(Tail(list))

\* Lines 18-31 of the stream script, with the field the copy takes (from 0)
parse_accessions(id, field) ==
    LET uniprot_list == split(id, ";")
    IN join_semicolon([k \in DOMAIN uniprot_list |->
           IF count(uniprot_list[k], "|") = 2
           THEN split(uniprot_list[k], "|")[field + 1]
           ELSE uniprot_list[k]])

\* The copy of the stream script: accession.split("|")[2]
parse_uniprot_accession(id) == parse_accessions(id, 2)

\* The copy of ibaq/peptide_normalization.py: accession.split("|")[1]
ibaq_parse_uniprot_accession(id) == parse_accessions(id, 1)

AccessionInit ==
    /\ acc_stage = "input"
    /\ uniprot_id = <<>>
    /\ stream_accession = [called |-> FALSE, value |-> <<>>]
    /\ ibaq_accession = [called |-> FALSE, value |-> <<>>]
    /\ SupportIdle /\ QuantileIdle /\ FrequencyIdle /\ RollupIdle /\ CanonicalIdle /\ LabelIdle /\ RunIdle /\ BatchIdle /\ CenteringIdle /\ IngestIdle

\* The field grows by one character.
AppendAccessionChar(c) ==
    /\ acc_stage = "input"
    /\ Len(uniprot_id) < MaxAccessionLen
    /\ uniprot_id' = Append(uniprot_id, c)
    /\ UNCHANGED <<acc_stage, stream_accession, ibaq_accession>>
    /\ UNCHANGED notAccessionVars

\* Line 347 of the stream script: the field is parsed by the script's copy.
ParseInStream ==
    /\ ~stream_accession.called
    /\ stream_accession' = [called |-> TRUE, value |-> parse_uniprot_accession(uniprot_id)]
    /\ acc_stage' = "parsed"
    /\ UNCHANGED <<uniprot_id, ibaq_accession>>
    /\ UNCHANGED notAccessionVars

\* Line 226 of ibaq/peptide_normalization.py: the field is parsed by the
\* library's copy.
ParseInLibrary ==
    /\ ~ibaq_accession.called
    /\ ibaq_accession' = [called |-> TRUE, value |-> ibaq_parse_uniprot_accession(uniprot_id)]
    /\ acc_stage' = "parsed"
    /\ UNCHANGED <<uniprot_id, stream_accession>>
    /\ UNCHANGED notAccessionVars

AccessionNext ==
    \/ \E c \in AccessionAlphabet : AppendAccessionChar(c)
    \/ ParseInStream
    \/ ParseInLibrary

\* What the field should become: every accession with exactly two pipes
\* replaced by what follows its second pipe, the others as they are.
AfterSecondPipe(accession) ==
    LET pipes == {i \in DOMAIN accession : accession[i] = "|"}
    IN SubSeq(accession, SetMax(pipes) + 1, Len(accession))

TrailingNames(id) ==
    LET accessions == split(id, ";")
    IN [k \in DOMAIN accessions |->
           IF count(accessions[k], "|") = 2 THEN AfterSecondPipe(accessions[k])
           ELSE accessions[k]]

\* C23: each copy of parse_uniprot_accession returns the accessions of the
\* field, as many and in the same order, each with exactly two pipes
\* replaced by its third field and every other unchanged; the two copies
\* agree.
C23_BothCopiesGiveTrailingName ==
    /\ stream_accession.called =>
           split(stream_accession.value, ";") = TrailingNames(uniprot_id)
    /\ ibaq_accession.called =>
           split(ibaq_accession.value, ";") = TrailingNames(uniprot_id)
    /\ stream_accession.called /\ ibaq_accession.called =>
           stream_accession.value = ibaq_accession.value

(***************************************************************************)
(* Ingestion into the scratch directory                                    *)
(*                                                                         *)
(* The loop over the feature batches of a CSV run, as the directory        *)
(* ibaqpy_temp and the support table see it.  The left join with the       *)
(* design (lines 368-397) leaves the sample of a row without a matching    *)
(* design entry null ("NaN" here).  The directory may hold files of an     *)
(* earlier run: os.mkdir is called only when it does not exist.            *)
(***************************************************************************)
MaxIngestRows == 2

\* The rows of result_df after the join
IngestRows == [pep : {"p1", "p2"}, prot : {"A", "B"}, sample : {"S1", "NaN"}]

\* What ibaqpy_temp holds when the run starts: nothing, or the file an
\* earlier run left for S1
EarlierFiles == {<<>>, [s \in {"S1"} |-> <<[pep |-> "p2", prot |-> "B", sample |-> "S1"]>>]}

\* result_df without the rows that found no design entry
matched(result_df) == {r \in result_df : r.sample # "NaN"}

IngestInit ==
    /\ ing_pc = "ingest"
    /\ ing_min_unique \in {1, 2}
    /\ buffers \in EarlierFiles
    /\ joined_rows = <<>>
    /\ ing_unique = <<>>
    /\ matched_unique = <<>>
    /\ ing_strong = {}
    /\ ing_rows = 0
    /\ SupportIdle /\ QuantileIdle /\ FrequencyIdle /\ RollupIdle /\ CanonicalIdle /\ LabelIdle /\ RunIdle /\ BatchIdle /\ CenteringIdle /\ AccessionIdle

\* Lines 403-419: the rows of a batch are written to the files of their
\* samples, then the batch is merged into unique_peptides.
IngestChunk(result_df) ==
    /\ ing_pc = "ingest"
    /\ result_df # {}
    /\ ing_rows + Cardinality(result_df) <= MaxIngestRows
    /\ buffers' = append_to_files(buffers, result_df)
    /\ joined_rows' = append_to_files(joined_rows, result_df)
    /\ ing_unique' = merge_unique(ing_unique, unique_dict(result_df))
    /\ matched_unique' = merge_unique(matched_unique, unique_dict(matched(result_df)))
    /\ ing_rows' = ing_rows + Cardinality(result_df)
    /\ UNCHANGED <<ing_pc, ing_min_unique, ing_strong>>
    /\ UNCHANGED notIngestVars

\* Lines 421-437: the batches are exhausted, strong_proteins is computed
\* and the loop over the per-sample files begins.
EndIngestion ==
    /\ ing_pc = "ingest"
    /\ ing_strong' = strong_list(ing_unique, ing_min_unique)
    /\ ing_pc' = "pass1"
    /\ UNCHANGED <<ing_min_unique, buffers, joined_rows, ing_unique, matched_unique, ing_rows>>
    /\ UNCHANGED notIngestVars

IngestNext ==
    \/ \E result_df \in SUBSET IngestRows : IngestChunk(result_df)
    \/ EndIngestion

\* C24: when the loop over the per-sample files begins, the file of each
\* sample holds the rows of this run's batches that joined to the sample,
\* in the order of arrival, and nothing else, also when a file of the
\* sample was there before the run.
C24_BufferHoldsThisRunOnly ==
    (ing_pc = "pass1" /\ ing_rows > 0) =>
        \A sample \in DOMAIN buffers : buffers[sample] = joined_rows[sample]

\* C25: the rows that found no design entry change neither the support
\* table nor the strong proteins: both are what the same batches give
\* without those rows.
C25_UnmatchedRowsHaveNoInfluence ==
    /\ ing_unique = matched_unique
    /\ ing_pc = "pass1" => ing_strong = strong_list(matched_unique, ing_min_unique)

(***************************************************************************)
(* Specifications                                                          *)
(***************************************************************************)
SpecSupport == SupportInit /\ [][SupportNext]_vars

SpecQuantile == QuantileInit /\ [][QuantileNext]_vars

SpecFoldOrder == QuantileInit /\ [][FoldOrderNext]_vars

SpecFrequency == FrequencyInit /\ [][FrequencyNext]_vars

SpecSelect == SelectInit /\ [][SelectNext]_vars

SpecSumMedian == SumMedianInit /\ [][SumMedianNext]_vars

SpecCanonical == CanonicalInit /\ [][CanonicalNext]_vars

SpecLabel == LabelInit /\ [][LabelNext]_vars

SpecPlex == LabelInit /\ [][PlexNext]_vars

SpecRun == RunInit /\ [][RunNext]_vars

SpecBatch == BatchInit /\ [][BatchNext]_vars

SpecCentering == CenteringInit /\ [][CenteringNext]_vars

SpecAccession == AccessionInit /\ [][AccessionNext]_vars

SpecIngest == IngestInit /\ [][IngestNext]_vars

====
